---------------------------- MODULE Spec2Model ----------------------------
(* A model of boggle.C: main() builds a trie of the dictionary words      *)
(* (trieBuild / trieAddWord), searches the game board for them            *)
(* (playBoggle / findSolution) and frees the trie (trieFree).             *)
(* Characters are ASCII codes, trie node pointers are the sequences of    *)
(* child slots that lead from the root to the node, NULL is a value that  *)
(* is no such sequence.                                                   *)
EXTENDS Integers, Sequences, FiniteSets, TLC

(***************************************************************************)
(* Characters                                                              *)
(***************************************************************************)
LowerCase == <<"a","b","c","d","e","f","g","h","i","j","k","l","m",
               "n","o","p","q","r","s","t","u","v","w","x","y","z">>

UpperCase == <<"A","B","C","D","E","F","G","H","I","J","K","L","M",
               "N","O","P","Q","R","S","T","U","V","W","X","Y","Z">>

\* The ASCII code of a one-character string ("\n" is the line feed).
Ord(s) ==
  IF s = "\n" THEN 10
  ELSE IF \E i \in 1..26 : LowerCase[i] = s
       THEN 96 + (CHOOSE i \in 1..26 : LowerCase[i] = s)
       ELSE 64 + (CHOOSE i \in 1..26 : UpperCase[i] = s)

\* A C string (without its terminator) from a tuple of one-character strings.
Str(t) == [i \in 1..Len(t) |-> Ord(t[i])]

NUL == 0

ALPHABET_SIZE == 26

ARG_DICTFILE == 2

ARG_MAX == ARG_DICTFILE + 1

MAX_WORD_LENGTH == 80

FLAGS_ISWORD == 1

tolower(c) == IF c >= 65 /\ c <= 90 THEN c + 32 ELSE c

isalpha(c) == (c >= 65 /\ c <= 90) \/ (c >= 97 /\ c <= 122)

getCharIndex(c) == tolower(c) - Ord("a")

getBoardIndex(size, row, col) == (size * row) + col

\* chop(): strip the trailing characters that are not letters.
RECURSIVE chop(_)
chop(buf) ==
  IF isalpha(buf[Len(buf)]) THEN buf
  ELSE chop(SubSeq(buf, 1, Len(buf) - 1))

(***************************************************************************)
(* The trie                                                                *)
(***************************************************************************)
\* A null Trie pointer; every other pointer is a sequence of slots 0..25.
NULL == <<-1>>

Root == <<>>

\* No node at all: bCB->dict == NULL.
NoTrie == <<>>

\* The word buffer after memset(): NUL at every index.
ClearBuf == <<>>

\* trieAllocNode(): a node that memset() has zeroed.
trieAllocNode == [ch |-> NUL, flags |-> 0]

\* The trie whose only node is the root.
RootOnly == [p \in {Root} |-> trieAllocNode]

\* node->child[ix], for a node pointer that is not null.
Child(d, node, ix) ==
  IF Append(node, ix) \in DOMAIN d THEN Append(node, ix) ELSE NULL

\* bCB->dict, the pointer to the root.
DictPtr(d) == IF Root \in DOMAIN d THEN Root ELSE NULL

IsWord(d, node) == (d[node].flags % 2) = FLAGS_ISWORD

\* SetIsWord adding the flag instead of or-ing it in.
SetIsWordByAdding(flags) == flags + FLAGS_ISWORD

\* flags |= FLAGS_ISWORD
SetIsWord(flags) == IF flags % 2 = 1 THEN flags ELSE flags + FLAGS_ISWORD


\* The loop of trieAddWord() without the assignment to ch of line 181.
RECURSIVE AddWordLoopNotStoringLetter(_, _, _, _, _, _, _, _)
AddWordLoopNotStoringLetter(d, hist, word, i, curNode, prevNode, allocs, budget) ==
  IF i > Len(word)
  THEN [dict |-> d, i |-> i, prevNode |-> prevNode, allocs |-> allocs,
        status |-> "end"]
  ELSE
    LET ix == getCharIndex(word[i]) IN
    IF hist[ix] = 0
    THEN [dict |-> d, i |-> i, prevNode |-> prevNode, allocs |-> allocs,
          status |-> "break"]
    ELSE IF curNode = NULL
    THEN [dict |-> d, i |-> i, prevNode |-> prevNode, allocs |-> allocs,
          status |-> "segv"]
    ELSE
      LET kid == Append(curNode, ix) IN
      IF kid \notin DOMAIN d /\ budget = 0
      THEN [dict |-> d, i |-> i, prevNode |-> prevNode, allocs |-> allocs,
            status |-> "nomem"]
      ELSE
        LET fresh == kid \notin DOMAIN d
            d2    == [p \in DOMAIN d \cup {kid} |->
                        IF p = kid /\ fresh THEN trieAllocNode ELSE d[p]]
        IN AddWordLoopNotStoringLetter(d2, hist, word, i + 1, kid, kid,
                       IF fresh THEN allocs + 1 ELSE allocs,
                       IF fresh THEN budget - 1 ELSE budget)

\* The for loop of trieAddWord() from iteration i on (word[i] is the C
\* word[i-1]).  budget is the number of trieAllocNode() calls that still
\* succeed (malloc returns NULL after them).  The result is the state at
\* the loop's exit: status is "break"/"end" when the loop was left at line
\* 164 or by its condition, "nomem" for the goto of line 175, "segv" when
\* curNode is null at line 169.
RECURSIVE AddWordLoop(_, _, _, _, _, _, _, _)
AddWordLoop(d, hist, word, i, curNode, prevNode, allocs, budget) ==
  IF i > Len(word)
  THEN [dict |-> d, i |-> i, prevNode |-> prevNode, allocs |-> allocs,
        status |-> "end"]
  ELSE
    LET ix == getCharIndex(word[i]) IN
    IF hist[ix] = 0
    THEN [dict |-> d, i |-> i, prevNode |-> prevNode, allocs |-> allocs,
          status |-> "break"]
    ELSE IF curNode = NULL
    THEN [dict |-> d, i |-> i, prevNode |-> prevNode, allocs |-> allocs,
          status |-> "segv"]
    ELSE
      LET kid == Append(curNode, ix) IN
      IF kid \notin DOMAIN d /\ budget = 0
      THEN [dict |-> d, i |-> i, prevNode |-> prevNode, allocs |-> allocs,
            status |-> "nomem"]
      ELSE
        LET fresh == kid \notin DOMAIN d
            flags == IF fresh THEN trieAllocNode.flags ELSE d[kid].flags
            d2    == [p \in DOMAIN d \cup {kid} |->
                        IF p = kid THEN [ch |-> word[i], flags |-> flags]
                        ELSE d[p]]
        IN AddWordLoop(d2, hist, word, i + 1, kid, kid,
                       IF fresh THEN allocs + 1 ELSE allocs,
                       IF fresh THEN budget - 1 ELSE budget)

\* trieAddWord marking the last node reached even when the loop was left
\* at a letter that is not on the board.
trieAddWordMarkingAbandoned(d, hist, word, allocCalls, budget) ==
  LET r == AddWordLoop(d, hist, word, 1, DictPtr(d), DictPtr(d), 0, budget)
      marks == r.status \in {"end", "break"} /\ r.prevNode # NULL
                 /\ r.prevNode # DictPtr(d)
  IN
  IF r.status = "segv"
  THEN [dict |-> r.dict, allocCalls |-> allocCalls + r.allocs,
        wordAdded |-> FALSE, bSuccess |-> FALSE, status |-> "segv"]
  ELSE IF r.status = "nomem"
  THEN [dict |-> r.dict, allocCalls |-> allocCalls + r.allocs,
        wordAdded |-> FALSE, bSuccess |-> FALSE, status |-> "ok"]
  ELSE IF marks
  THEN [dict |-> [r.dict EXCEPT ![r.prevNode].flags = SetIsWord(@)],
        allocCalls |-> allocCalls + r.allocs,
        wordAdded |-> TRUE, bSuccess |-> TRUE, status |-> "ok"]
  ELSE [dict |-> r.dict, allocCalls |-> allocCalls + r.allocs,
        wordAdded |-> FALSE, bSuccess |-> TRUE, status |-> "ok"]

\* trieAddWord returning success when trieAllocNode() returned NULL.
trieAddWordIgnoringNomem(d, hist, word, allocCalls, budget) ==
  LET r == AddWordLoop(d, hist, word, 1, DictPtr(d), DictPtr(d), 0, budget)
      marks == r.status = "end" /\ r.prevNode # NULL
  IN
  IF r.status = "segv"
  THEN [dict |-> r.dict, allocCalls |-> allocCalls + r.allocs,
        wordAdded |-> FALSE, bSuccess |-> FALSE, status |-> "segv"]
  ELSE IF r.status = "nomem"
  THEN [dict |-> r.dict, allocCalls |-> allocCalls + r.allocs,
        wordAdded |-> FALSE, bSuccess |-> TRUE, status |-> "ok"]
  ELSE IF marks /\ r.prevNode = DictPtr(d)
  THEN [dict |-> r.dict, allocCalls |-> allocCalls + r.allocs,
        wordAdded |-> FALSE, bSuccess |-> FALSE, status |-> "assert"]
  ELSE IF marks
  THEN [dict |-> [r.dict EXCEPT ![r.prevNode].flags = SetIsWord(@)],
        allocCalls |-> allocCalls + r.allocs,
        wordAdded |-> TRUE, bSuccess |-> TRUE, status |-> "ok"]
  ELSE [dict |-> r.dict, allocCalls |-> allocCalls + r.allocs,
        wordAdded |-> FALSE, bSuccess |-> TRUE, status |-> "ok"]

\* trieAddWord marking the node the loop stopped at, without the test of
\* i against the length and without the assertion.
trieAddWordMarkingLastNode(d, hist, word, allocCalls, budget) ==
  LET r == AddWordLoop(d, hist, word, 1, DictPtr(d), DictPtr(d), 0, budget)
      marks == r.status \in {"end", "break"} /\ r.prevNode # NULL
  IN
  IF r.status = "segv"
  THEN [dict |-> r.dict, allocCalls |-> allocCalls + r.allocs,
        wordAdded |-> FALSE, bSuccess |-> FALSE, status |-> "segv"]
  ELSE IF r.status = "nomem"
  THEN [dict |-> r.dict, allocCalls |-> allocCalls + r.allocs,
        wordAdded |-> FALSE, bSuccess |-> FALSE, status |-> "ok"]
  ELSE IF marks
  THEN [dict |-> [r.dict EXCEPT ![r.prevNode].flags = SetIsWord(@)],
        allocCalls |-> allocCalls + r.allocs,
        wordAdded |-> TRUE, bSuccess |-> TRUE, status |-> "ok"]
  ELSE [dict |-> r.dict, allocCalls |-> allocCalls + r.allocs,
        wordAdded |-> FALSE, bSuccess |-> TRUE, status |-> "ok"]

\* trieAddWord(bCB, word, &wordAdded): the trie, the counter, the out
\* parameter and the return value it leaves.  status is "ok" for a normal
\* return, "segv" for the null dereference and "assert" for line 191.
trieAddWord(d, hist, word, allocCalls, budget) ==
  LET r == AddWordLoop(d, hist, word, 1, DictPtr(d), DictPtr(d), 0, budget)
      marks == r.status = "end" /\ r.prevNode # NULL
  IN
  IF r.status = "segv"
  THEN [dict |-> r.dict, allocCalls |-> allocCalls + r.allocs,
        wordAdded |-> FALSE, bSuccess |-> FALSE, status |-> "segv"]
  ELSE IF r.status = "nomem"
  THEN [dict |-> r.dict, allocCalls |-> allocCalls + r.allocs,
        wordAdded |-> FALSE, bSuccess |-> FALSE, status |-> "ok"]
  ELSE IF marks /\ r.prevNode = DictPtr(d)
  THEN [dict |-> r.dict, allocCalls |-> allocCalls + r.allocs,
        wordAdded |-> FALSE, bSuccess |-> FALSE, status |-> "assert"]
  ELSE IF marks
  THEN [dict |-> [r.dict EXCEPT ![r.prevNode].flags = SetIsWord(@)],
        allocCalls |-> allocCalls + r.allocs,
        wordAdded |-> TRUE, bSuccess |-> TRUE, status |-> "ok"]
  ELSE [dict |-> r.dict, allocCalls |-> allocCalls + r.allocs,
        wordAdded |-> FALSE, bSuccess |-> TRUE, status |-> "ok"]

\* trieFree(bCB, &node): the number of free() calls made for the subtree
\* at node (0 for a null pointer); every child slot is visited.
RECURSIVE trieFreeCount(_, _)
trieFreeCount(d, node) ==
  IF node = NULL THEN 0
  ELSE
    LET RECURSIVE Kids(_)
        Kids(i) == IF i = ALPHABET_SIZE THEN 0
                   ELSE trieFreeCount(d, Child(d, node, i)) + Kids(i + 1)
    IN Kids(0) + 1

\* The nodes trieFree() releases: those reachable from node by child links.
RECURSIVE trieFreeNodes(_, _)
trieFreeNodes(d, node) ==
  IF node = NULL THEN {}
  ELSE {node} \cup UNION { trieFreeNodes(d, Child(d, node, i)) :
                             i \in 0..(ALPHABET_SIZE - 1) }

(***************************************************************************)
(* Inputs                                                                  *)
(***************************************************************************)
\* A line of a file as fgets() returns it: the text and its line feed.
Line(t) == Str(t) \o <<Ord("\n")>>

\* The board files tried: square boards of 1, 2 and 3 rows.
ExampleBoard == << Line(<<"a","b">>), Line(<<"c","d">>) >>

Boards ==
  { << Line(<<"a">>) >>,
    ExampleBoard,
    << Line(<<"B","a">>), Line(<<"a","b">>) >>,
    << Line(<<"a","b","c">>), Line(<<"d","d","d">>), Line(<<"d","d","d">>) >> }

\* The dictionary lines tried.
DictWords ==
  { Str(<<"a">>), Str(<<"a","b">>), Str(<<"a","c">>), Str(<<"a","b","c">>),
    Str(<<"a","b","d">>), Str(<<"b","a">>), Str(<<"c","d">>),
    Str(<<"d","a">>), Str(<<"a","b","z">>), Str(<<"z","a">>),
    Str(<<"a","b","c","d","a">>) }

DictLines == { w \o <<Ord("\n")>> : w \in DictWords }

\* Dictionary lines with upper-case letters: getCharIndex() folds the case.
MixedCaseWords ==
  { Str(<<"a">>), Str(<<"a","b">>), Str(<<"A","b">>), Str(<<"A","B">>),
    Str(<<"b","a">>), Str(<<"a","b","z">>), Str(<<"Z","a">>),
    Str(<<"a","b","c","d","a">>) }

MixedCaseLines == { w \o <<Ord("\n")>> : w \in MixedCaseWords }

\* The number of dictionary lines read before the end of the file.
MaxWords == 4

\* How many trieAllocNode() calls of one trieAddWord() succeed before
\* malloc fails: 0 .. MaxBudget.  No word tried has more than MaxBudget
\* letters, so the calls in which malloc never fails are among them.
MaxBudget == 5

AllocBudgets == 0..MaxBudget

(***************************************************************************)
(* State                                                                   *)
(***************************************************************************)
VARIABLES
  pc,             \* where main() is
  abortCause,     \* which assertion or fault ended the program, or "none"
  boardFile,      \* the lines of the board file
  wordList,       \* the words read from the dictionary file so far
  inserted,       \* the words trieAddWord() has reported as added
  mallocFailed,   \* whether malloc has returned NULL inside trieAddWord()
  dict,           \* bCB.dict and the nodes under it
  trieAllocCalls, \* bCB.trieAllocCalls
  trieFreeCalls,  \* bCB.trieFreeCalls
  boardSize,      \* bCB.boardSize
  maxBoardSize,   \* bCB.maxBoardSize
  board,          \* bCB.board
  histogram,      \* bCB.histogram
  used,           \* bCB.used
  search,         \* bCB.search
  linesRead,      \* trieBuild: the lines fgets() has returned
  lastWord,       \* trieBuild: buf after chop()
  wordAdded,      \* trieBuild: wordAdded
  wordCount,      \* trieBuild: wordCount
  bSuccess,       \* trieBuild: bSuccess
  cell,           \* playBoggle: the loop's position, boardSize*i + j
  stack,          \* the active findSolution() calls, outermost first
  reports         \* the "Found word" lines printed, in order

vars == << pc, abortCause, boardFile, wordList, inserted, mallocFailed, dict, trieAllocCalls,
           trieFreeCalls, boardSize, maxBoardSize, board, histogram, used,
           search, linesRead, lastWord, wordAdded, wordCount, bSuccess,
           cell, stack, reports >>

\* memset(&bCB, 0, sizeof(bCB)): null pointers, zero counters.
Init ==
  /\ pc = "main"
  /\ abortCause = "none"
  /\ boardFile \in Boards
  /\ wordList = {}
  /\ inserted = {}
  /\ mallocFailed = FALSE
  /\ dict = NoTrie
  /\ trieAllocCalls = 0
  /\ trieFreeCalls = 0
  /\ boardSize = 0
  /\ maxBoardSize = 0
  /\ board = <<>>
  /\ histogram = <<>>
  /\ used = <<>>
  /\ search = ClearBuf
  /\ linesRead = 0
  /\ lastWord = <<>>
  /\ wordAdded = FALSE
  /\ wordCount = 0
  /\ bSuccess = TRUE
  /\ cell = 0
  /\ stack = <<>>
  /\ reports = <<>>

(***************************************************************************)
(* main() up to the dictionary                                             *)
(***************************************************************************)
\* Lines 449-455: the argument check, then initBoggle().  initBoggle()
\* counts the root node whether or not trieAllocNode() returned one.
MainStart ==
  /\ pc = "main"
  /\ \E argc \in {ARG_MAX, ARG_MAX + 1}, rootOK \in BOOLEAN :
       IF argc > ARG_MAX
       THEN /\ pc' = "exit"
            /\ UNCHANGED << dict, trieAllocCalls >>
       ELSE /\ dict' = IF rootOK THEN RootOnly ELSE NoTrie
            /\ trieAllocCalls' = 1
            /\ pc' = "readBoard"
  /\ UNCHANGED << abortCause, boardFile, wordList, inserted, mallocFailed, trieFreeCalls, boardSize,
                  maxBoardSize, board, histogram, used, search, linesRead,
                  lastWord, wordAdded, wordCount, bSuccess, cell, stack,
                  reports >>

\* The board main() builds from the file: row r of the file, chopped and in
\* lower case, fills cells size*r .. size*r + size - 1; memset() leaves NUL
\* in the cells of rows the file does not have.
LoadBoard(lines, size) ==
  [k \in 0..(size * size - 1) |->
     IF (k \div size) + 1 <= Len(lines)
     THEN tolower(lines[(k \div size) + 1][(k % size) + 1])
     ELSE NUL]

\* Lines 459-511: open and read the board file.
ReadBoard ==
  /\ pc = "readBoard"
  /\ \E fopenOK \in BOOLEAN, mallocOK \in BOOLEAN :
       IF ~fopenOK
       THEN /\ pc' = "exit"
            /\ UNCHANGED << boardSize, board >>
       ELSE IF ~mallocOK
       THEN /\ pc' = "exit"
            /\ boardSize' = Len(chop(boardFile[1]))
            /\ UNCHANGED board
       ELSE /\ boardSize' = Len(chop(boardFile[1]))
            /\ board' = LoadBoard(boardFile, boardSize')
            /\ pc' = "histogram"
  /\ UNCHANGED << abortCause, boardFile, wordList, inserted, mallocFailed, dict, trieAllocCalls,
                  trieFreeCalls, maxBoardSize, histogram, used, search,
                  linesRead, lastWord, wordAdded, wordCount, bSuccess, cell,
                  stack, reports >>

\* Lines 553-561: how often each letter is on the board.
BuildHistogram(b) ==
  [ix \in 0..(ALPHABET_SIZE - 1) |->
     Cardinality({k \in DOMAIN b : getCharIndex(b[k]) = ix})]

\* Lines 544-576: the histogram, the anchoring of the arrays, the mask.
Histogram ==
  /\ pc = "histogram"
  /\ \E histOK \in BOOLEAN, usedOK \in BOOLEAN :
       IF ~histOK
       THEN /\ pc' = "exit"
            /\ UNCHANGED << histogram, maxBoardSize, used >>
       ELSE /\ histogram' = BuildHistogram(board)
            /\ maxBoardSize' = boardSize * boardSize
            /\ IF usedOK
               THEN /\ used' = [k \in 0..(boardSize * boardSize - 1) |-> FALSE]
                    /\ pc' = "openDict"
               ELSE /\ UNCHANGED used
                    /\ pc' = "exit"
  /\ UNCHANGED << abortCause, boardFile, wordList, inserted, mallocFailed, dict, trieAllocCalls,
                  trieFreeCalls, boardSize, board, search, linesRead,
                  lastWord, wordAdded, wordCount, bSuccess, cell, stack,
                  reports >>

\* Lines 580-585: open the dictionary file.
OpenDict ==
  /\ pc = "openDict"
  /\ \E fopenOK \in BOOLEAN :
       pc' = IF fopenOK THEN "trieBuild" ELSE "exit"
  /\ UNCHANGED << abortCause, boardFile, wordList, inserted, mallocFailed, dict, trieAllocCalls,
                  trieFreeCalls, boardSize, maxBoardSize, board, histogram,
                  used, search, linesRead, lastWord, wordAdded, wordCount,
                  bSuccess, cell, stack, reports >>

(***************************************************************************)
(* trieBuild()                                                             *)
(***************************************************************************)
\* The number of trieAllocNode() calls trieAddWord() makes for a word when
\* none of them fails.
NodesNeeded(d, hist, word) ==
  AddWordLoop(d, hist, word, 1, DictPtr(d), DictPtr(d), 0, Len(word)).allocs

\* One iteration of the while loop of trieBuild(): fgets() returns a line,
\* and the word is added unless it is longer than the board has cells.
\* A failed trieAddWord() leaves trieBuild() and main() for the exit label.
ReadWordFrom(lines) ==
  /\ pc = "trieBuild"
  /\ linesRead < MaxWords
  /\ \E line \in lines, budget \in AllocBudgets :
       LET buf == chop(line)
           r   == trieAddWord(dict, histogram, buf, trieAllocCalls, budget)
       IN
       \* a budget of the nodes the word needs is a call without failure,
       \* and so is every larger one
       /\ budget <= NodesNeeded(dict, histogram, buf)
       /\ linesRead' = linesRead + 1
       /\ lastWord' = buf
       /\ wordList' = wordList \cup {buf}
       /\ IF Len(buf) <= boardSize * boardSize
          THEN /\ dict' = r.dict
               /\ inserted' = IF r.wordAdded THEN inserted \cup {buf}
                               ELSE inserted
               /\ mallocFailed' =
                    (AddWordLoop(dict, histogram, buf, 1, DictPtr(dict),
                                 DictPtr(dict), 0, budget).status = "nomem")
               /\ trieAllocCalls' = r.allocCalls
               /\ wordAdded' = r.wordAdded
               /\ bSuccess' = r.bSuccess
               /\ wordCount' = IF r.wordAdded THEN wordCount + 1 ELSE wordCount
               /\ pc' = IF r.status = "segv" THEN "crashed"
                        ELSE IF r.status = "assert" THEN "aborted"
                        ELSE IF r.bSuccess THEN "trieBuild" ELSE "exit"
               /\ abortCause' = IF r.status = "ok" THEN abortCause
                                ELSE "trieAddWord"
          ELSE /\ wordAdded' = FALSE
               /\ UNCHANGED << dict, trieAllocCalls, bSuccess, wordCount, pc,
                               abortCause, inserted, mallocFailed >>
  /\ UNCHANGED << boardFile, trieFreeCalls, boardSize, maxBoardSize, board,
                  histogram, used, search, cell, stack, reports >>

\* The step for a dictionary file of lower-case words.
ReadWord == ReadWordFrom(DictLines)

\* The step for a dictionary file with upper-case letters in it.
ReadWordMixed == ReadWordFrom(MixedCaseLines)

\* fgets() returns NULL: trieBuild() returns true and main() calls
\* playBoggle(), which checks the size of the word buffer and clears it.
DictEOF ==
  /\ pc = "trieBuild"
  /\ linesRead' = 0
  /\ lastWord' = <<>>
  /\ wordAdded' = FALSE
  /\ wordCount' = 0
  /\ IF MAX_WORD_LENGTH >= boardSize * boardSize
     THEN /\ pc' = "playBoggle"
          /\ abortCause' = abortCause
     ELSE /\ pc' = "aborted"
          /\ abortCause' = "playBoggle"
  /\ search' = ClearBuf
  /\ cell' = 0
  /\ UNCHANGED << boardFile, wordList, inserted, mallocFailed, dict, trieAllocCalls, trieFreeCalls,
                  boardSize, maxBoardSize, board, histogram, used, bSuccess,
                  stack, reports >>

(***************************************************************************)
(* The search                                                              *)
(***************************************************************************)
\* bCB->search, an array of MAX_WORD_LENGTH characters, is kept as the
\* function from the indexes that hold a character other than NUL to that
\* character; every other index below MAX_WORD_LENGTH holds NUL.
BufGet(s, k) == IF k \in DOMAIN s THEN s[k] ELSE NUL

BufSet(s, k, c) ==
  IF c = NUL
  THEN [i \in DOMAIN s \ {k} |-> s[i]]
  ELSE [i \in DOMAIN s \cup {k} |-> IF i = k THEN c ELSE s[i]]

\* markUsed taking the letter from the cell (col, row).
markUsedTransposed(u, s, b, size, row, col, stringIndex) ==
  LET boardIndex == getBoardIndex(size, row, col) IN
  [ok     |-> u[boardIndex] = FALSE,
   used   |-> [u EXCEPT ![boardIndex] = TRUE],
   search |-> BufSet(s, stringIndex, b[getBoardIndex(size, col, row)])]

\* markUsed(bCB, row, col, stringIndex): ok is the assertion of line 307.
markUsed(u, s, b, size, row, col, stringIndex) ==
  LET boardIndex == getBoardIndex(size, row, col) IN
  [ok     |-> u[boardIndex] = FALSE,
   used   |-> [u EXCEPT ![boardIndex] = TRUE],
   search |-> BufSet(s, stringIndex, b[boardIndex])]

\* markUnused leaving the letter in the word buffer.
markUnusedKeepingLetter(u, s, size, row, col, stringIndex) ==
  LET boardIndex == getBoardIndex(size, row, col) IN
  [ok     |-> u[boardIndex] = TRUE,
   used   |-> [u EXCEPT ![boardIndex] = FALSE],
   search |-> s]

\* markUnused(bCB, row, col, stringIndex): ok is the assertion of line 294.
markUnused(u, s, size, row, col, stringIndex) ==
  LET boardIndex == getBoardIndex(size, row, col) IN
  [ok     |-> u[boardIndex] = TRUE,
   used   |-> [u EXCEPT ![boardIndex] = FALSE],
   search |-> BufSet(s, stringIndex, NUL)]

\* isValid without the test of the mask.
isValidIgnoringUsed(u, b, d, maxSize, boardIndex, node) ==
  /\ boardIndex >= 0
  /\ boardIndex <= maxSize
  /\ Child(d, node, getCharIndex(b[boardIndex])) # NULL

\* isValid(bCB, boardIndex, node)
isValid(u, b, d, maxSize, boardIndex, node) ==
  /\ boardIndex >= 0
  /\ boardIndex <= maxSize
  /\ ~u[boardIndex]
  /\ Child(d, node, getCharIndex(b[boardIndex])) # NULL

\* The two nested loops of findSolution() visit the offsets in the order
\* k = 0..8, with rowDiff = k \div 3 - 1 and colDiff = k % 3 - 1.
\* RowDiff stepping two rows at a time.
RowDiffTwoApart(k) == 2 * ((k \div 3) - 1)

RowDiff(k) == (k \div 3) - 1

ColDiff(k) == (k % 3) - 1

\* MoveOK with the diagonal moves left out.
MoveOKOrthogonal(f, k) ==
  LET newRow == f.row + RowDiff(k)
      newCol == f.col + ColDiff(k)
      move   == getBoardIndex(boardSize, newRow, newCol)
  IN /\ RowDiff(k) = 0 \/ ColDiff(k) = 0
     /\ newRow >= 0
     /\ newRow < boardSize
     /\ newCol >= 0
     /\ newCol < boardSize
     /\ isValid(used, board, dict, maxBoardSize, move, f.node)

\* int move = getBoardIndex(bCB, newRow, newCol) for offset k of frame f.
Move(f, k) ==
  getBoardIndex(boardSize, f.row + RowDiff(k), f.col + ColDiff(k))

\* EvaluatesIsValid without the test of newCol against the board size.
EvaluatesIsValidNoColumnLimit(f, k) ==
  LET newRow == f.row + RowDiff(k)
      newCol == f.col + ColDiff(k)
  IN /\ newRow >= 0
     /\ newRow < boardSize
     /\ newCol >= 0

\* The tests of lines 369 and 378-379 for offset k of frame f: isValid() is
\* called exactly when they pass.
EvaluatesIsValid(f, k) ==
  LET newRow == f.row + RowDiff(k)
      newCol == f.col + ColDiff(k)
  IN /\ newRow >= 0
     /\ newRow < boardSize
     /\ newCol >= 0
     /\ newCol < boardSize

\* The condition of lines 369 and 378-380 for offset k of frame f.
MoveOK(f, k) ==
  /\ EvaluatesIsValid(f, k)
  /\ isValid(used, board, dict, maxBoardSize, Move(f, k), f.node)

\* The first offset from f.k on whose move is taken; 9 when the loops end.
NextMove(f) ==
  IF \E k \in f.k..8 : MoveOK(f, k)
  THEN CHOOSE k \in f.k..8 : MoveOK(f, k) /\ \A m \in f.k..(k - 1) : ~MoveOK(f, m)
  ELSE 9

\* What printf("%s") prints of a buffer: the characters before the first NUL.
RECURSIVE CString(_, _)
CString(s, from) ==
  IF from >= MAX_WORD_LENGTH \/ BufGet(s, from) = NUL THEN <<>>
  ELSE <<BufGet(s, from)>> \o CString(s, from + 1)

\* The cells of the active calls, outermost first.
PathOf(stk) == [n \in 1..Len(stk) |-> << stk[n].row, stk[n].col >>]

\* Found printing the cell the search began at.
FoundAtOrigin(s, row, col, path) ==
  [word |-> CString(s, 0), row |-> path[1][1], col |-> path[1][2],
   path |-> path]

\* The line findSolution() prints on entry: the buffer and ITS row and col
\* (path is not printed: it records the cells of the active calls).
Found(s, row, col, path) ==
  [word |-> CString(s, 0), row |-> row, col |-> col, path |-> path]

\* A call findSolution(bCB, row, col, node, stringIndex) up to its loops,
\* made with the mask u and the buffer s already marked; preUsed and
\* preSearch record the mask and the buffer before that marking.
Enter(row, col, node, stringIndex, u, s, preUsed, preSearch, callers) ==
  LET f == [row |-> row, col |-> col, node |-> node,
            stringIndex |-> stringIndex, k |-> 0,
            preUsed |-> preUsed, preSearch |-> preSearch]
  IN
  /\ used' = u
  /\ search' = s
  /\ stack' = Append(callers, f)
  /\ IF node = NULL
     THEN /\ pc' = "aborted"
          /\ abortCause' = "findSolution"
          /\ UNCHANGED reports
     ELSE /\ UNCHANGED << pc, abortCause >>
          /\ reports' = IF IsWord(dict, node)
                        THEN Append(reports,
                               Found(s, row, col, PathOf(Append(callers, f))))
                        ELSE reports

\* playBoggle(), lines 419-422: mark the next cell and search from it.
PlayCell ==
  /\ pc = "playBoggle"
  /\ stack = <<>>
  /\ cell < boardSize * boardSize
  /\ LET i == cell \div boardSize
         j == cell % boardSize
         m == markUsed(used, search, board, boardSize, i, j, 0)
         charIndex == getCharIndex(board[getBoardIndex(boardSize, i, j)])
     IN
     IF ~m.ok
     THEN /\ pc' = "aborted"
          /\ abortCause' = "markUsed"
          /\ UNCHANGED << used, search, stack, reports >>
     ELSE IF DictPtr(dict) = NULL
     THEN /\ pc' = "crashed"
          /\ abortCause' = "playBoggle"
          /\ used' = m.used
          /\ search' = m.search
          /\ UNCHANGED << stack, reports >>
     ELSE Enter(i, j, Child(dict, Root, charIndex), 1, m.used, m.search,
                used, search, <<>>)
  /\ UNCHANGED << boardFile, wordList, inserted, mallocFailed, dict, trieAllocCalls, trieFreeCalls,
                  boardSize, maxBoardSize, board, histogram, linesRead,
                  lastWord, wordAdded, wordCount, bSuccess, cell >>

\* findSolution(), lines 365-390: the loops reach a valid move, mark it and
\* recurse.
Descend ==
  /\ pc = "playBoggle"
  /\ stack # <<>>
  /\ LET f == stack[Len(stack)]
         k == NextMove(f)
     IN
     /\ k <= 8
     /\ LET newRow == f.row + RowDiff(k)
            newCol == f.col + ColDiff(k)
            move   == getBoardIndex(boardSize, newRow, newCol)
            newIx  == getCharIndex(board[move])
            m      == markUsed(used, search, board, boardSize, newRow, newCol,
                               f.stringIndex)
            callers == [stack EXCEPT ![Len(stack)].k = k + 1]
        IN
        IF ~m.ok
        THEN /\ pc' = "aborted"
             /\ abortCause' = "markUsed"
             /\ UNCHANGED << used, search, stack, reports >>
        ELSE Enter(newRow, newCol, Child(dict, f.node, newIx),
                   f.stringIndex + 1, m.used, m.search, used, search, callers)
  /\ UNCHANGED << boardFile, wordList, inserted, mallocFailed, dict, trieAllocCalls, trieFreeCalls,
                  boardSize, maxBoardSize, board, histogram, linesRead,
                  lastWord, wordAdded, wordCount, bSuccess, cell >>

\* The loops of the innermost findSolution() end: it returns and its caller
\* backtracks (line 394, or line 426 in playBoggle(), which then moves on).
Return ==
  /\ pc = "playBoggle"
  /\ stack # <<>>
  /\ LET f == stack[Len(stack)]
         m == markUnused(used, search, boardSize, f.row, f.col,
                         f.stringIndex - 1)
     IN
     /\ NextMove(f) = 9
     /\ IF ~m.ok
        THEN /\ pc' = "aborted"
             /\ abortCause' = "markUnused"
             /\ UNCHANGED << used, search, stack, cell >>
        ELSE /\ used' = m.used
             /\ search' = m.search
             /\ stack' = SubSeq(stack, 1, Len(stack) - 1)
             /\ cell' = IF Len(stack) = 1 THEN cell + 1 ELSE cell
             /\ UNCHANGED << pc, abortCause >>
  /\ UNCHANGED << boardFile, wordList, inserted, mallocFailed, dict, trieAllocCalls, trieFreeCalls,
                  boardSize, maxBoardSize, board, histogram, linesRead,
                  lastWord, wordAdded, wordCount, bSuccess, reports >>

\* The loops of playBoggle() end; main() falls through to the exit label.
PlayDone ==
  /\ pc = "playBoggle"
  /\ stack = <<>>
  /\ cell = boardSize * boardSize
  /\ pc' = "exit"
  /\ UNCHANGED << abortCause, boardFile, wordList, inserted, mallocFailed, dict, trieAllocCalls,
                  trieFreeCalls, boardSize, maxBoardSize, board, histogram,
                  used, search, linesRead, lastWord, wordAdded, wordCount,
                  bSuccess, cell, stack, reports >>

(***************************************************************************)
(* Teardown                                                                *)
(***************************************************************************)
\* Lines 599-607: trieFree() and the two assertions after it.
Teardown ==
  /\ pc = "exit"
  /\ trieFreeCalls' = trieFreeCalls + trieFreeCount(dict, DictPtr(dict))
  /\ dict' = [p \in DOMAIN dict \ trieFreeNodes(dict, DictPtr(dict)) |-> dict[p]]
  /\ IF DictPtr(dict') = NULL /\ trieAllocCalls = trieFreeCalls'
     THEN /\ pc' = "done"
          /\ UNCHANGED abortCause
     ELSE /\ pc' = "aborted"
          /\ abortCause' = "main"
  /\ UNCHANGED << boardFile, wordList, inserted, mallocFailed, trieAllocCalls, boardSize,
                  maxBoardSize, board, histogram, used, search, linesRead,
                  lastWord, wordAdded, wordCount, bSuccess, cell, stack,
                  reports >>

Next ==
  \/ MainStart
  \/ ReadBoard
  \/ Histogram
  \/ OpenDict
  \/ ReadWord
  \/ DictEOF
  \/ PlayCell
  \/ Descend
  \/ Return
  \/ PlayDone
  \/ Teardown

Spec == Init /\ [][Next]_vars

\* The program run on a dictionary file with upper-case letters in it.
NextMixedCase ==
  \/ MainStart
  \/ ReadBoard
  \/ Histogram
  \/ OpenDict
  \/ ReadWordMixed
  \/ DictEOF
  \/ PlayCell
  \/ Descend
  \/ Return
  \/ PlayDone
  \/ Teardown

SpecMixedCase == Init /\ [][NextMixedCase]_vars

(***************************************************************************)
(* Notions the properties are stated with                                  *)
(***************************************************************************)
Cells == 0..(boardSize * boardSize - 1)

RowOf(c) == c \div boardSize

ColOf(c) == c % boardSize

Dist(a, b) == IF a >= b THEN a - b ELSE b - a

\* Two different cells whose rows and columns differ by at most 1.
Adjacent(c1, c2) ==
  /\ c1 # c2
  /\ Dist(RowOf(c1), RowOf(c2)) <= 1
  /\ Dist(ColOf(c1), ColOf(c2)) <= 1

\* Letters i.. of w can be spelled from cell c on, avoiding the cells seen.
RECURSIVE SpellsFrom(_, _, _, _)
SpellsFrom(w, i, c, seen) ==
  /\ board[c] = w[i]
  /\ \/ i = Len(w)
     \/ \E c2 \in Cells \ (seen \cup {c}) :
          Adjacent(c, c2) /\ SpellsFrom(w, i + 1, c2, seen \cup {c})

\* w is spelled by a path of pairwise distinct, successively adjacent cells.
Spellable(w) == Len(w) > 0 /\ \E c \in Cells : SpellsFrom(w, 1, c, {})

SpellableWords == { w \in wordList : Spellable(w) }

ReportedWords == { reports[n].word : n \in 1..Len(reports) }

\* playBoggle() has returned.
PlayReturned ==
  pc \in {"exit", "done"} /\ boardSize > 0 /\ cell = boardSize * boardSize

\* playBoggle() was stopped by the assertion at the head of findSolution().
PlayAborted == pc = "aborted" /\ abortCause = "findSolution"

\* The search is over: nothing more will be reported.
SearchEnded == PlayReturned \/ PlayAborted

(***************************************************************************)
(* C1                                                                      *)
(***************************************************************************)
\* C1: once the search is over, the set of words reported is exactly the
\* set of words of the list that a path of pairwise distinct, successively
\* 8-neighbour adjacent cells spells.
C1_ReportsExactlySpellable ==
  SearchEnded => ReportedWords = SpellableWords

\* What does hold: nothing but spellable words of the list is reported, and
\* a search that playBoggle() completes reports all of them.
C1_SoundAndCompleteIfReturned ==
  /\ ReportedWords \subseteq SpellableWords
  /\ PlayReturned => ReportedWords = SpellableWords

(***************************************************************************)
(* C2                                                                      *)
(***************************************************************************)
\* C2: the coordinates of every report are those of the cell where the
\* search began at depth 0 (the cell chosen by playBoggle).
C2_ReportsOriginCell ==
  \A n \in 1..Len(reports) :
    << reports[n].row, reports[n].col >> = reports[n].path[1]

\* C2 (amended): the coordinates of every report are those of the cell at
\* which the word's last letter was reached: the last cell of the path of
\* the active calls, which holds the last letter of the printed word.
C2_ReportsLastCell ==
  \A n \in 1..Len(reports) :
    LET r == reports[n] IN
    /\ << r.row, r.col >> = r.path[Len(r.path)]
    /\ Len(r.word) = Len(r.path)
    /\ board[getBoardIndex(boardSize, r.row, r.col)] = r.word[Len(r.word)]

\* A word of three letters reported away from the cell its search began at.
C2_Witness ==
  \E n \in 1..Len(reports) :
    /\ Len(reports[n].path) = 3
    /\ reports[n].path[3] # reports[n].path[1]
    /\ << reports[n].row, reports[n].col >> = reports[n].path[3]

(***************************************************************************)
(* C3                                                                      *)
(***************************************************************************)
\* C3: for a cell whose letter has no child under the root, findSolution()
\* is not invoked, no assertion fails and nothing is reported for the cell.
C3_SkipsCellsWithoutRootChild ==
  /\ \A n \in 1..Len(stack) : stack[n].node # NULL
  /\ abortCause # "findSolution"

(***************************************************************************)
(* C4                                                                      *)
(***************************************************************************)
ExampleWords ==
  { Str(<<"a","b">>), Str(<<"a","c">>), Str(<<"a","b","c">>),
    Str(<<"a","b","d">>) }

ExampleRun == boardFile = ExampleBoard /\ wordList = ExampleWords

\* C4: on the board ab/cd with the list ab, ac, abc, abd the search reports
\* exactly ab, ac and abd.
C4_ExampleReports ==
  (ExampleRun /\ SearchEnded) =>
     ReportedWords = { Str(<<"a","b">>), Str(<<"a","c">>), Str(<<"a","b","d">>) }

\* C4 (amended): on that board and list the search reports exactly ab, abc,
\* abd and ac, all from the start cell (0,0), abc along (0,0),(0,1),(1,0);
\* the search then ends at cell (0,1), in the assertion of findSolution().
C4_ExampleReportsAll ==
  (ExampleRun /\ SearchEnded) =>
     /\ ReportedWords = ExampleWords
     /\ \A n \in 1..Len(reports) : reports[n].path[1] = <<0, 0>>
     /\ \E n \in 1..Len(reports) :
          /\ reports[n].word = Str(<<"a","b","c">>)
          /\ reports[n].path = << <<0, 0>>, <<0, 1>>, <<1, 0>> >>
     /\ PlayAborted
     /\ cell = 1

C4_Witness ==
  /\ ExampleRun
  /\ SearchEnded
  /\ \E n \in 1..Len(reports) : reports[n].word = Str(<<"a","b","c">>)

(***************************************************************************)
(* C5 and C6: steps of trieBuild()                                         *)
(***************************************************************************)
\* A step of trieBuild() that passed the word lastWord' to trieAddWord().
AddWordStep ==
  /\ pc = "trieBuild"
  /\ linesRead' = linesRead + 1
  /\ Len(lastWord') <= boardSize * boardSize

\* The node a word ends at: the child slots of its letters.
PathOfWord(w) == [i \in 1..Len(w) |-> getCharIndex(w[i])]

\* C5: a second successful trieAddWord() of a word already added reports
\* wordAdded = false and leaves the trie as the first call left it.
C5_SecondInsertReportsFalse ==
  [][ (AddWordStep /\ lastWord' \in inserted /\ bSuccess')
        => (wordAdded' = FALSE /\ dict' = dict) ]_vars

\* C5 (amended): a second successful trieAddWord() of a word already added
\* leaves the trie and the allocation counter as the first call left them,
\* with the one terminal marking on the word's last node, and reports
\* wordAdded = true again (trieBuild() counts the word a second time).
C5_SecondInsertReportsTrueAgain ==
  [][ (AddWordStep /\ lastWord' \in inserted /\ bSuccess')
        => /\ wordAdded' = TRUE
           /\ dict' = dict
           /\ dict'[PathOfWord(lastWord')].flags = FLAGS_ISWORD
           /\ trieAllocCalls' = trieAllocCalls
           /\ wordCount' = wordCount + 1 ]_vars

\* A word has been added twice: it was counted more often than it is there.
C5_Witness ==
  /\ pc = "trieBuild"
  /\ lastWord \in inserted
  /\ wordAdded
  /\ wordCount > Cardinality(inserted)

\* The position of the first letter of w that is not on the board.
HasAbsentLetter(w) == \E i \in 1..Len(w) : histogram[getCharIndex(w[i])] = 0

FirstAbsent(w) ==
  CHOOSE i \in 1..Len(w) :
    /\ histogram[getCharIndex(w[i])] = 0
    /\ \A j \in 1..(i - 1) : histogram[getCharIndex(w[j])] # 0

\* The nodes of the first n letters of w.
PrefixNodes(w, n) == { SubSeq(PathOfWord(w), 1, m) : m \in 1..n }

\* C6: trieAddWord() of a word with a letter that is not on the board leaves
\* the trie and the allocation counter unchanged and wordAdded false.
C6_AbsentLetterLeavesTrieUntouched ==
  [][ (AddWordStep /\ HasAbsentLetter(lastWord'))
        => /\ dict' = dict
           /\ trieAllocCalls' = trieAllocCalls
           /\ wordAdded' = FALSE ]_vars

\* C6 (amended): trieAddWord() of a word with a letter that is not on the
\* board leaves wordAdded false and every terminal flag as it was, and adds
\* no node but those of the letters before the first such letter: all of
\* them that were missing when it returns success, each counted by the
\* allocation counter and none of them terminal; the trie is unchanged when
\* that prefix was already there (as when the first letter is not on the
\* board).
C6_AbsentLetterAddsOnlyPrefixNodes ==
  [][ (AddWordStep /\ HasAbsentLetter(lastWord'))
        => LET w     == lastWord'
               pre   == PrefixNodes(w, FirstAbsent(w) - 1)
               added == DOMAIN dict' \ DOMAIN dict
           IN /\ wordAdded' = FALSE
              /\ DOMAIN dict \subseteq DOMAIN dict'
              /\ \A p \in DOMAIN dict : dict'[p].flags = dict[p].flags
              /\ \A p \in added : dict'[p].flags = 0
              /\ added \subseteq pre
              /\ trieAllocCalls' = trieAllocCalls + Cardinality(added)
              /\ bSuccess' => DOMAIN dict' = DOMAIN dict \cup pre
              /\ pre \subseteq DOMAIN dict => dict' = dict ]_vars

\* The word abz was abandoned at z after its nodes a and b were allocated.
C6_Witness ==
  /\ pc = "trieBuild"
  /\ lastWord = Str(<<"a","b","z">>)
  /\ wordList = {lastWord}
  /\ bSuccess
  /\ ~wordAdded
  /\ DOMAIN dict = {Root} \cup PrefixNodes(lastWord, 2)
  /\ trieAllocCalls = 3

(***************************************************************************)
(* C7 and C8: failures and teardown                                        *)
(***************************************************************************)
\* trieFree() has run at the exit label.
TornDown == pc = "done" \/ (pc = "aborted" /\ abortCause = "main")

\* C7: after trieFree() the free counter equals the allocation counter and
\* the dictionary handle is NULL, on every execution that reaches teardown.
C7_FreeCountEqualsAllocCount ==
  TornDown => (trieFreeCalls = trieAllocCalls /\ DictPtr(dict) = NULL)

\* C8: once trieAllocNode() has failed inside trieAddWord(), trieAddWord()
\* and trieBuild() have returned failure, no further word is read,
\* playBoggle() is not invoked, nothing is reported, and control is at the
\* exit label or past it with its assertions passed.
C8_AllocFailureAbortsBuild ==
  mallocFailed =>
     /\ ~bSuccess
     /\ ~wordAdded
     /\ pc \in {"exit", "done"}
     /\ reports = <<>>
     /\ stack = <<>>
     /\ cell = 0
     /\ pc = "done" => (trieFreeCalls = trieAllocCalls /\ dict = NoTrie)

\* A failure with part of the dictionary built, after teardown.
C8_Witness ==
  /\ mallocFailed
  /\ pc = "done"
  /\ trieAllocCalls > 2
  /\ inserted # {}

(***************************************************************************)
(* C9 and C10: the mask and the word buffer                                *)
(***************************************************************************)
\* The innermost findSolution() returns and its caller has backtracked.
ReturnStep ==
  /\ pc = "playBoggle"
  /\ pc' = "playBoggle"
  /\ Len(stack') = Len(stack) - 1

\* C9: when a call of findSolution() has returned and been backtracked, the
\* mask and the word buffer are what they were just before the markUsed()
\* that preceded the call; and after playBoggle() has returned every mask
\* cell is false and the word buffer holds only the terminator.
C9_MaskAndBufferRestored ==
  /\ [][ ReturnStep => /\ used' = stack[Len(stack)].preUsed
                       /\ search' = stack[Len(stack)].preSearch ]_vars
  /\ [](PlayReturned => /\ \A c \in DOMAIN used : used[c] = FALSE
                        /\ \A k \in 0..(MAX_WORD_LENGTH - 1) :
                             BufGet(search, k) = NUL)

\* playBoggle() has returned from a search that went three calls deep.
C9_Witness ==
  /\ PlayReturned
  /\ \E n \in 1..Len(reports) : Len(reports[n].path) = 3

\* The cells whose mask entry is set.
UsedCells == { c \in DOMAIN used : used[c] }

\* The cells of the active calls.
PathCells ==
  { getBoardIndex(boardSize, stack[n].row, stack[n].col) : n \in 1..Len(stack) }

\* playBoggle() is running, or has been stopped by the assertion at the
\* head of findSolution() (the call it stopped in is still on the stack).
DuringSearch == pc = "playBoggle" \/ PlayAborted

\* C10: during the search the cells marked used are exactly the cells of the active calls,
\* one for each depth, and neither the assertion of markUsed() nor that of
\* markUnused() fails.
C10_UsedCellsAreThePath ==
  /\ DuringSearch =>
       /\ UsedCells = PathCells
       /\ Cardinality(UsedCells) = Len(stack)
       /\ \A n \in 1..Len(stack) : stack[n].stringIndex = n
  /\ abortCause \notin {"markUsed", "markUnused"}

\* A search three calls deep.
C10_Witness ==
  /\ pc = "playBoggle"
  /\ Len(stack) = 3
  /\ Cardinality(UsedCells) = 3

(***************************************************************************)
(* C11 and C12: what is true at a report                                   *)
(***************************************************************************)
\* C11: the cells of the active calls at every report form a simple path of
\* the 8-neighbour grid: every cell is on the board, no cell occurs twice,
\* and successive cells differ by at most 1 in row and in column without
\* being the same cell.
C11_ReportedPathIsSimple ==
  \A n \in 1..Len(reports) :
    LET p == reports[n].path IN
    /\ \A i \in 1..Len(p) : /\ p[i][1] \in 0..(boardSize - 1)
                            /\ p[i][2] \in 0..(boardSize - 1)
    /\ \A i, j \in 1..Len(p) : i # j => p[i] # p[j]
    /\ \A i \in 1..(Len(p) - 1) :
         /\ Dist(p[i][1], p[i + 1][1]) <= 1
         /\ Dist(p[i][2], p[i + 1][2]) <= 1
         /\ p[i] # p[i + 1]

\* A word of three letters reported on the board of three rows.
C11_Witness ==
  /\ boardSize = 3
  /\ \E n \in 1..Len(reports) : Len(reports[n].path) = 3

\* A step in which findSolution() prints a word.
ReportStep == Len(reports') = Len(reports) + 1

\* The word the child slots on the way from the root to a node spell.
WordOfNode(node) == [i \in 1..Len(node) |-> Ord("a") + node[i]]

\* C12: at every report, made by a call of depth d, the word buffer holds
\* at 0..d-1 the board letters of the d cells of the active calls, in their
\* order, and the terminator at d, so that the text printed has d letters;
\* and that text is the word the path from the root to the call's node
\* spells, a node that is marked terminal.
C12_BufferSpellsThePath ==
  [][ ReportStep =>
        LET f == stack'[Len(stack')]
            r == reports'[Len(reports')]
            d == f.stringIndex
        IN /\ d = Len(stack')
           /\ \A i \in 1..d :
                BufGet(search', i - 1) =
                  board[getBoardIndex(boardSize, stack'[i].row, stack'[i].col)]
           /\ BufGet(search', d) = NUL
           /\ Len(r.word) = d
           /\ r.word = WordOfNode(f.node)
           /\ IsWord(dict, f.node) ]_vars

\* The word abd has been reported on the board ab/cd.
C12_Witness ==
  /\ boardFile = ExampleBoard
  /\ \E n \in 1..Len(reports) :
       /\ reports[n].word = Str(<<"a","b","d">>)
       /\ reports[n].path = << <<0, 0>>, <<0, 1>>, <<1, 1>> >>

(***************************************************************************)
(* C13: the search ends                                                    *)
(***************************************************************************)
\* The depth of the calls grows by one from each call to the next, never
\* exceeds the number of cells, and the word buffer is written below that
\* number only.
DepthBounded ==
  /\ Len(stack) <= boardSize * boardSize
  /\ \A n \in 1..Len(stack) : stack[n].stringIndex = n
  /\ \A k \in DOMAIN search : k < boardSize * boardSize

\* C13: playBoggle() is never stopped by an assertion (it visits every
\* start cell and returns), the depth of the calls grows by one with each
\* call and never exceeds N*N, and every write into the word buffer is at
\* an index below N*N.
C13_SearchRunsToCompletion ==
  /\ pc = "aborted" =>
       abortCause \notin {"playBoggle", "findSolution", "markUsed", "markUnused"}
  /\ DepthBounded

(***************************************************************************)
(* C14: the order of the reports                                           *)
(***************************************************************************)
\* The neighbours of a cell in the order of (row offset, column offset).
Offsets ==
  << <<-1, -1>>, <<-1, 0>>, <<-1, 1>>, <<0, -1>>, <<0, 1>>, <<1, -1>>,
     <<1, 0>>, <<1, 1>> >>

OnBoard(rc) ==
  rc[1] \in 0..(boardSize - 1) /\ rc[2] \in 0..(boardSize - 1)

LetterSlot(rc) == getCharIndex(board[getBoardIndex(boardSize, rc[1], rc[2])])

\* The pre-order of the depth-first search below a path of cells that has
\* led to a node of the trie: the path itself if the node is terminal, then
\* the searches of the neighbours of its last cell, in the order of Offsets,
\* that are on the board, not on the path and have a child of the node.
RECURSIVE PreOrder(_, _)
PreOrder(path, node) ==
  LET last == path[Len(path)]
      RECURSIVE Below(_)
      Below(i) ==
        IF i > Len(Offsets) THEN <<>>
        ELSE LET rc == << last[1] + Offsets[i][1], last[2] + Offsets[i][2] >>
             IN (IF /\ OnBoard(rc)
                    /\ \A j \in 1..Len(path) : path[j] # rc
                    /\ Child(dict, node, LetterSlot(rc)) # NULL
                 THEN PreOrder(Append(path, rc),
                               Child(dict, node, LetterSlot(rc)))
                 ELSE <<>>) \o Below(i + 1)
  IN (IF IsWord(dict, node) THEN << path >> ELSE <<>>) \o Below(1)

\* The pre-order of the searches from the start cells c, c+1, ... in
\* row-major order; a start cell without a child of the root adds nothing.
RECURSIVE PreOrderFrom(_)
PreOrderFrom(c) ==
  IF c >= boardSize * boardSize THEN <<>>
  ELSE LET rc == << RowOf(c), ColOf(c) >>
       IN (IF Child(dict, Root, LetterSlot(rc)) # NULL
           THEN PreOrder(<< rc >>, Child(dict, Root, LetterSlot(rc)))
           ELSE <<>>) \o PreOrderFrom(c + 1)

ReportedPaths == [n \in 1..Len(reports) |-> reports[n].path]

IsPrefix(s, t) == Len(s) <= Len(t) /\ s = SubSeq(t, 1, Len(s))

\* The search is over and the trie has not been freed yet.
SearchJustEnded == (pc = "exit" /\ PlayReturned) \/ PlayAborted

\* C14: the sequence of reports is exactly the pre-order sequence of the
\* depth-first search that takes the start cells in row-major order and the
\* neighbours in the order of Offsets.
C14_ReportsInPreOrder ==
  SearchJustEnded => ReportedPaths = PreOrderFrom(0)

\* What does hold: the reports are always an initial part of that sequence,
\* and all of it when playBoggle() returns.
C14_ReportsPrefixOfPreOrder ==
  /\ (pc = "playBoggle" \/ SearchJustEnded) =>
        IsPrefix(ReportedPaths, PreOrderFrom(0))
  /\ (pc = "exit" /\ PlayReturned) => ReportedPaths = PreOrderFrom(0)

(***************************************************************************)
(* C15: the pruning                                                        *)
(***************************************************************************)
\* findSolution() as a function of the trie d: the paths it reports, in
\* order, when called for the last cell of path with the node reached.
RECURSIVE findSolutionRun(_, _, _)
findSolutionRun(d, path, node) ==
  LET last == path[Len(path)]
      RECURSIVE Loops(_)
      Loops(k) ==
        IF k > 8 THEN <<>>
        ELSE LET rc == << last[1] + RowDiff(k), last[2] + ColDiff(k) >>
             IN (IF /\ OnBoard(rc)
                    /\ \A j \in 1..Len(path) : path[j] # rc
                    /\ Child(d, node, LetterSlot(rc)) # NULL
                 THEN findSolutionRun(d, Append(path, rc),
                                      Child(d, node, LetterSlot(rc)))
                 ELSE <<>>) \o Loops(k + 1)
  IN (IF IsWord(d, node) THEN << path >> ELSE <<>>) \o Loops(0)

\* playBoggle() as a function of the trie d, from start cell c on: the
\* paths reported until it returns or findSolution() is called with NULL.
RECURSIVE playBoggleRun(_, _)
playBoggleRun(d, c) ==
  IF c >= boardSize * boardSize THEN <<>>
  ELSE LET rc == << RowOf(c), ColOf(c) >>
           node == Child(d, Root, LetterSlot(rc))
       IN IF node = NULL THEN <<>>
          ELSE findSolutionRun(d, << rc >>, node) \o playBoggleRun(d, c + 1)

\* The letters of the cells of a path.
LettersOf(path) ==
  [i \in 1..Len(path) |->
     board[getBoardIndex(boardSize, path[i][1], path[i][2])]]

WordsOfRun(run) == { LettersOf(run[n]) : n \in 1..Len(run) }

\* The trie with every word of a set inserted by trieAddWord() without the
\* length test of trieBuild() and with every letter taken to be on the
\* board.
EveryLetter == [ix \in 0..(ALPHABET_SIZE - 1) |-> 1]

RECURSIVE UnfilteredTrie(_)
UnfilteredTrie(words) ==
  IF words = {} THEN RootOnly
  ELSE LET w == CHOOSE x \in words : TRUE
       IN trieAddWord(UnfilteredTrie(words \ {w}), EveryLetter, w, 0,
                      Len(w)).dict

\* The words ingestion skips.
Skipped(w) == Len(w) > boardSize * boardSize \/ HasAbsentLetter(w)

\* The steps of the search agree with the search as a function.
SearchAgreesWithRun ==
  SearchJustEnded => ReportedPaths = playBoggleRun(dict, 0)

\* No word that ingestion skips can be spelled, and none is reported.
PruningSound ==
  (histogram # <<>>) =>
     \A w \in wordList :
        Skipped(w) => (~Spellable(w) /\ w \notin ReportedWords)

\* C15: no word that ingestion skips can be spelled or is reported, and the
\* set of words reported equals the set the same search reports over the
\* trie with every word of the list inserted unfiltered.
C15_PruningChangesNoReport ==
  /\ PruningSound
  /\ SearchJustEnded =>
       ReportedWords = WordsOfRun(playBoggleRun(UnfilteredTrie(wordList), 0))

\* When playBoggle() returns, the pruning has changed no report.
C15_PruningChangesNoReportIfReturned ==
  (pc = "exit" /\ PlayReturned) =>
     ReportedWords = WordsOfRun(playBoggleRun(UnfilteredTrie(wordList), 0))

(***************************************************************************)
(* C16 and C17: the shape of the trie                                      *)
(***************************************************************************)
\* C16: whatever words trieAddWord() was called with, the root is never
\* marked as a word: every marked node lies at depth 1 or more, and the
\* assertion of trieAddWord() never fails.
C16_RootNeverTerminal ==
  /\ \A node \in DOMAIN dict : IsWord(dict, node) => Len(node) >= 1
  /\ ~(pc = "aborted" /\ abortCause = "trieAddWord")

\* za (first letter not on the board) and abz (abandoned at z) were passed
\* to trieAddWord(), ab was added, and the root is there and unmarked.
C16_Witness ==
  /\ pc = "trieBuild"
  /\ boardFile = ExampleBoard
  /\ wordList = {Str(<<"z","a">>), Str(<<"a","b","z">>), Str(<<"a","b">>)}
  /\ inserted = {Str(<<"a","b">>)}
  /\ Root \in DOMAIN dict
  /\ ~IsWord(dict, Root)
  /\ IsWord(dict, <<0, 1>>)

\* A word trieBuild() passes to trieAddWord() and trieAddWord() walks to
\* its end.
Eligible(w) == Len(w) <= boardSize * boardSize /\ ~HasAbsentLetter(w)

\* The lower-case letter of the child slot a node occupies.
SlotLetter(node) == Ord("a") + node[Len(node)]

\* A node is marked exactly if an eligible word of the list ends at it.
TerminalIffEligibleWord ==
  \A node \in DOMAIN dict :
     IsWord(dict, node) <=>
        \E w \in wordList : PathOfWord(w) = node /\ Eligible(w)

\* The marked nodes of a trie.
Terminals(d) == { node \in DOMAIN d : IsWord(d, node) }

\* A call with a word that has a letter not on the board marks nothing.
AbandonedWordMarksNothing ==
  (AddWordStep /\ HasAbsentLetter(lastWord'))
     => Terminals(dict') = Terminals(dict)

\* C17: a node is marked exactly if the letters on its path spell a word
\* that was passed to trieAddWord(), is at most N*N long and has only
\* letters of the board; a word abandoned at a letter that is not on the
\* board marks none of the nodes it leaves; and the letter stored in a node
\* is the letter of the child slot the node occupies.
C17_TerminalIffEligibleWord ==
  /\ [](/\ TerminalIffEligibleWord
        /\ \A node \in DOMAIN dict \ {Root} :
              dict[node].ch = SlotLetter(node))
  /\ [][AbandonedWordMarksNothing]_vars

\* C17 (amended): as C17, but the letter stored in a node is the letter of
\* its child slot only up to case: it is the character, as written, of a
\* word of the list that was walked through the node.
C17_TerminalIffEligibleWordUpToCase ==
  /\ [](/\ TerminalIffEligibleWord
        /\ \A node \in DOMAIN dict \ {Root} :
              /\ tolower(dict[node].ch) = SlotLetter(node)
              /\ \E w \in wordList :
                    /\ Len(w) >= Len(node)
                    /\ Len(w) <= boardSize * boardSize
                    /\ SubSeq(PathOfWord(w), 1, Len(node)) = node
                    /\ w[Len(node)] = dict[node].ch)
  /\ [][AbandonedWordMarksNothing]_vars

\* Ab was added after ab, and abz abandoned at z: the node of a holds A,
\* the node of ab is marked and the node of a is not.
C17_Witness ==
  /\ pc = "trieBuild"
  /\ boardFile = ExampleBoard
  /\ wordList = {Str(<<"a","b">>), Str(<<"A","b">>), Str(<<"a","b","z">>)}
  /\ inserted = {Str(<<"a","b">>), Str(<<"A","b">>)}
  /\ dict[<<0>>].ch = Ord("A")
  /\ IsWord(dict, <<0, 1>>)
  /\ ~IsWord(dict, <<0>>)
  /\ DOMAIN dict = {Root, <<0>>, <<0, 1>>}

(***************************************************************************)
(* C18: no deduplication                                                   *)
(***************************************************************************)
\* The simple 8-neighbour cell paths that spell the first n letters of w.
RECURSIVE PathsSpelling(_, _)
PathsSpelling(w, n) ==
  IF n = 1 THEN { << c >> : c \in { c \in Cells : board[c] = w[1] } }
  ELSE { Append(p[1], p[2]) :
           p \in { q \in PathsSpelling(w, n - 1) \X Cells :
                     /\ Adjacent(q[1][n - 1], q[2])
                     /\ \A j \in 1..(n - 1) : q[1][j] # q[2]
                     /\ board[q[2]] = w[n] } }

\* The number of simple paths that spell w.
PathCount(w) ==
  IF Len(w) > boardSize * boardSize THEN 0
  ELSE Cardinality(PathsSpelling(w, Len(w)))

\* The number of times w was reported.
ReportCount(w) ==
  Cardinality({ n \in 1..Len(reports) : reports[n].word = w })

\* C18: once the search is over, every word of the list has been reported
\* as many times as there are simple 8-neighbour cell paths that spell it.
C18_ReportedOncePerPath ==
  SearchEnded => \A w \in wordList : ReportCount(w) = PathCount(w)

\* What does hold: the counts agree whenever playBoggle() returns, and no
\* word is ever reported more often than it has paths.
C18_ReportedOncePerPathIfReturned ==
  /\ PlayReturned => \A w \in wordList : ReportCount(w) = PathCount(w)
  /\ (pc \in {"playBoggle", "aborted"}) =>
        \A w \in wordList : ReportCount(w) <= PathCount(w)

\* A word with four paths was reported four times.
C18_FourPaths ==
  /\ PlayReturned
  /\ \E w \in wordList : PathCount(w) = 4 /\ ReportCount(w) = 4

(***************************************************************************)
(* C19: the indexes of the board and the mask                              *)
(***************************************************************************)
\* The indexes of the board and of the mask.
FlatIndexes == 0..(boardSize * boardSize - 1)

\* C19: during the search every index that isValid(), markUsed() and
\* markUnused() read the board and the mask with lies in 0..N*N-1, although
\* the bound test of isValid() lets N*N pass: the cell of every active call
\* is on the board, and isValid() is evaluated only for a newRow and a
\* newCol in 0..N-1.
C19_IndexesInRange ==
  /\ abortCause \notin {"markUsed", "markUnused"}
  /\ DuringSearch =>
       /\ maxBoardSize = boardSize * boardSize
       /\ \A n \in 1..Len(stack) :
             /\ stack[n].row \in 0..(boardSize - 1)
             /\ stack[n].col \in 0..(boardSize - 1)
             /\ getBoardIndex(boardSize, stack[n].row, stack[n].col)
                  \in FlatIndexes
             /\ \A k \in 0..8 :
                   EvaluatesIsValid(stack[n], k) =>
                      /\ stack[n].row + RowDiff(k) \in 0..(boardSize - 1)
                      /\ stack[n].col + ColDiff(k) \in 0..(boardSize - 1)
                      /\ Move(stack[n], k) \in FlatIndexes

\* A call for the last cell of a board of four cells or more: the offset
\* to the right gives the index N*N, which the bound test of isValid() lets
\* pass, and isValid() is not evaluated for it, while it is for the cell to
\* the left.
C19_Witness ==
  /\ pc = "playBoggle"
  /\ boardSize >= 2
  /\ Len(stack) >= 2
  /\ LET f == stack[Len(stack)] IN
       /\ f.row = boardSize - 1
       /\ f.col = boardSize - 1
       /\ Move(f, 5) = maxBoardSize
       /\ Move(f, 5) >= 0 /\ Move(f, 5) <= maxBoardSize
       /\ ~EvaluatesIsValid(f, 5)
       /\ EvaluatesIsValid(f, 3)

=============================================================================
